---- MODULE Spec2Model ----
(***************************************************************************)
(* Model of reorder() in app/src/lib/git/reorder.ts.                       *)
(*                                                                         *)
(* One call of reorder() is followed from its entry to the delivery of its *)
(* result.  Every `await` of the function is a step of the model, so the   *)
(* state between two steps is a state the function can be suspended in.    *)
(* A throw is followed synchronously by the catch block and the finally    *)
(* block (there is no await between them), so each throwing step also      *)
(* performs CatchFinally.                                                  *)
(*                                                                         *)
(* Commit shas are opaque: the code only compares them for equality        *)
(* (Set.has, ===).  The history returned by the log provider is therefore  *)
(* taken up to renaming: its n commits are, oldest first, the first n      *)
(* names of HashNames.  "Z" is a sha that is in no history.                *)
(***************************************************************************)
EXTENDS Integers, Sequences, FiniteSets, TLC

\* Longest history the log provider returns.
MaxLog == 5
\* Longest toMove list the caller passes.
MaxMove == 2

HashNames == <<"A", "B", "C", "D", "E", "F", "G", "H">>
AbsentSha == "Z"
\* The shas the caller can name in toMove and afterCommit.
Shas == {HashNames[k] : k \in 1..MaxLog} \cup {AbsentSha}

\* afterCommit: CommitOneLine | null
None == <<>>
Some(c) == <<c>>

\* The summary git reports for a commit, and the one a caller holds when its
\* copy of the commit does not come from this log.
LogSummary(sha) == "subject of " \o sha
CallerSummary(sha, stale) == IF stale THEN "stale subject" ELSE LogSummary(sha)

CommitOneLine(sha, summary) == [sha |-> sha, summary |-> summary]

Reverse(s) == [k \in 1..Len(s) |-> s[Len(s) + 1 - k]]

\* The history of n commits, oldest first.
History(n) == [k \in 1..n |-> CommitOneLine(HashNames[k], LogSummary(HashNames[k]))]

\* getCommits returns the log newest first.
GetCommitsResult(n) == Reverse(History(n))

\* lastRetainedCommitRef: string | null
NullRef == "null"
Refs == {NullRef, "base"}

\* revRange(lastRetainedCommitRef, 'HEAD'), or undefined for the whole history
RevRangeArg(ref) == IF ref = NullRef THEN "undefined" ELSE ref \o "..HEAD"

Undefined == "undefined"
TempFilePath == "reorderTodo"

\* Values rebaseInteractive resolves to.
RebaseResults == {"CompletedWithoutError", "ConflictsEncountered", "Error"}
RebaseResultError == "Error"

VARIABLES
    toMove,                    \* argument: sequence of CommitOneLine
    afterCommit,               \* argument: None or Some(CommitOneLine)
    lastRetainedCommitRef,     \* argument
    pc,                        \* where the call is suspended
    toMoveShas,                \* const toMoveShas
    commits,                   \* const commits (newest first)
    todoPath,                  \* let todoPath
    foundBaseCommitInLog,
    toReplayBeforeBaseCommit,
    toReplayAfterReorder,
    i,                         \* index of the outer loop, 1-based (0: loop over)
    j,                         \* index of the replay loop in progress, 1-based
    todoFile,                  \* lines of the file at todoPath, None if no file
    thrown,                    \* the error caught by the catch block
    result,                    \* what the call resolves to
    engine,                    \* rebaseInteractive: idle, running, returned, threw
    engineArgs,                \* arguments rebaseInteractive was called with
    logRequests,               \* ranges getCommits was called with
    removeIssued,              \* number of FSE.remove calls issued
    removePending              \* an issued FSE.remove that has not completed

vars == <<toMove, afterCommit, lastRetainedCommitRef, pc, toMoveShas, commits,
          todoPath, foundBaseCommitInLog, toReplayBeforeBaseCommit,
          toReplayAfterReorder, i, j, todoFile, thrown, result, engine,
          engineArgs, logRequests, removeIssued, removePending>>

inputs == <<toMove, afterCommit, lastRetainedCommitRef>>
buffers == <<foundBaseCommitInLog, toReplayBeforeBaseCommit, toReplayAfterReorder>>

SeqsUpTo(S, n) == UNION {[1..m -> S] : m \in 0..n}

Init ==
    /\ \E stale \in BOOLEAN :
         /\ \E shas \in SeqsUpTo(Shas, MaxMove) :
              toMove = [k \in 1..Len(shas) |->
                          CommitOneLine(shas[k], CallerSummary(shas[k], stale))]
         /\ \E a \in Shas \cup {"null"} :
              afterCommit = IF a = "null" THEN None
                            ELSE Some(CommitOneLine(a, CallerSummary(a, stale)))
    /\ lastRetainedCommitRef \in Refs
    /\ pc = "start"
    /\ toMoveShas = {}
    /\ commits = <<>>
    /\ todoPath = Undefined
    /\ foundBaseCommitInLog = FALSE
    /\ toReplayBeforeBaseCommit = <<>>
    /\ toReplayAfterReorder = <<>>
    /\ i = 0
    /\ j = 0
    /\ todoFile = None
    /\ thrown = "none"
    /\ result = "none"
    /\ engine = "idle"
    /\ engineArgs = None
    /\ logRequests = <<>>
    /\ removeIssued = 0
    /\ removePending = FALSE

(***************************************************************************)
(* The pieces of the code that the steps below are built from.             *)
(***************************************************************************)

\* Variant: the empty toMove list is let through.
NoCommitsProvidedUnchecked(list) == FALSE

\* toMove.length === 0
NoCommitsProvided(list) == Len(list) = 0

\* Variant: only the first commit of the list is taken.
ToMoveShaSetFirstOnly(list) == {list[1].sha}

\* new Set(toMove.map(c => c.sha))
ToMoveShaSet(list) == {list[k].sha : k \in 1..Len(list)}

\* commits.length === 0
NoCommitsInLog(log) == Len(log) = 0

\* Variant: no commit is taken for a toMove commit.
IsToMoveNever(commit) == FALSE

\* toMoveShas.has(commit.sha)
IsToMove(commit) == commit.sha \in toMoveShas

\* Variant: the sha of the commit is not compared.
IsBaseCommitAnySha(commit) == afterCommit # None

\* afterCommit !== null && commit.sha === afterCommit.sha
IsBaseCommit(commit) == afterCommit # None /\ commit.sha = afterCommit[1].sha

\* Variant: the array is overwritten by the pushed commit.
PushOverwrites(array, commit) == <<commit>>

\* Variant: the commit is put at the head of the array.
PushAtHead(array, commit) == <<commit>> \o array

\* array.push(commit)
Push(array, commit) == Append(array, commit)

\* Variant: the base commit is put after the kept commits.
UnshiftAtTail(array, commit) == Append(array, commit)

\* array.unshift(commit)
Unshift(array, commit) == <<commit>> \o array

\* `pick ${commit.sha} ${commit.summary}\n`
PickLine(commit) == [op |-> "pick", sha |-> commit.sha, summary |-> commit.summary]

\* FSE.appendFile creates the file when there is none.
AppendFile(file, line) ==
    IF file = None THEN Some(<<line>>) ELSE Some(Append(file[1], line))

\* Variant: the kept commits are never written at the end.
MoveToEndOfHistoryNever == FALSE

\* afterCommit === null
MoveToEndOfHistory == afterCommit = None

\* Variant: a base commit that was not met goes unnoticed.
BaseCommitNotInLogUnchecked == FALSE

\* afterCommit !== null && !foundBaseCommitInLog
BaseCommitNotInLog == afterCommit # None /\ ~foundBaseCommitInLog

\* Variant: the path is never removed.
ShouldRemoveNever(path) == FALSE

\* todoPath !== undefined
ShouldRemove(path) == path # Undefined

\* finally { if (todoPath !== undefined) { FSE.remove(todoPath) } }
\* The removal is issued and not awaited.
Finally ==
    /\ removeIssued' = IF ShouldRemove(todoPath) THEN removeIssued + 1 ELSE removeIssued
    /\ removePending' = (removePending \/ ShouldRemove(todoPath))

\* catch (e) { log.error(e); return RebaseResult.Error } finally { ... }
CatchFinally(e) ==
    /\ thrown' = e
    /\ result' = RebaseResultError
    /\ Finally
    /\ pc' = "done"

\* Variant: the log is traversed newest first.
CurrentNewestFirst == commits[Len(commits) + 1 - i]

\* The commit the outer loop is at.
Current == commits[i]

\* The outer loop goes on with the next older index, or is over.
Continue ==
    /\ i' = i - 1
    /\ pc' = "loop"

(***************************************************************************)
(* Steps                                                                   *)
(***************************************************************************)

\* Entry: the toMove check fails.
StartEmpty ==
    /\ pc = "start"
    /\ NoCommitsProvided(toMove)
    /\ CatchFinally("NoCommitsProvided")
    /\ UNCHANGED <<inputs, toMoveShas, commits, todoPath, buffers, i, j, todoFile,
                   engine, engineArgs, logRequests>>

\* Entry: the sha set is built and getCommits is called.
Start ==
    /\ pc = "start"
    /\ ~NoCommitsProvided(toMove)
    /\ toMoveShas' = ToMoveShaSet(toMove)
    /\ logRequests' = Append(logRequests, RevRangeArg(lastRetainedCommitRef))
    /\ pc' = "getCommits"
    /\ UNCHANGED <<inputs, commits, todoPath, buffers, i, j, todoFile, thrown,
                   result, engine, engineArgs, removeIssued, removePending>>

\* getCommits resolves to an empty log.
GetCommitsEmpty ==
    /\ pc = "getCommits"
    /\ commits' = GetCommitsResult(0)
    /\ NoCommitsInLog(commits')
    /\ CatchFinally("NoCommitsInLog")
    /\ UNCHANGED <<inputs, toMoveShas, todoPath, buffers, i, j, todoFile, engine,
                   engineArgs, logRequests>>

\* getCommits resolves to a log; getTempFilePath is called.
GetCommits ==
    /\ pc = "getCommits"
    /\ \E n \in 1..MaxLog : commits' = GetCommitsResult(n)
    /\ ~NoCommitsInLog(commits')
    /\ pc' = "getTempFilePath"
    /\ UNCHANGED <<inputs, toMoveShas, todoPath, buffers, i, j, todoFile, thrown,
                   result, engine, engineArgs, logRequests, removeIssued,
                   removePending>>

\* getCommits rejects.
GetCommitsRejects ==
    /\ pc = "getCommits"
    /\ CatchFinally("GetCommitsFailed")
    /\ UNCHANGED <<inputs, toMoveShas, commits, todoPath, buffers, i, j, todoFile,
                   engine, engineArgs, logRequests>>

\* getTempFilePath resolves; the pass starts at the oldest commit.
GetTempFilePath ==
    /\ pc = "getTempFilePath"
    /\ todoPath' = TempFilePath
    /\ foundBaseCommitInLog' = FALSE
    /\ toReplayBeforeBaseCommit' = <<>>
    /\ toReplayAfterReorder' = <<>>
    /\ i' = Len(commits)
    /\ pc' = "loop"
    /\ UNCHANGED <<inputs, toMoveShas, commits, j, todoFile, thrown, result,
                   engine, engineArgs, logRequests, removeIssued, removePending>>

\* getTempFilePath rejects: todoPath stays undefined.
GetTempFilePathRejects ==
    /\ pc = "getTempFilePath"
    /\ CatchFinally("GetTempFilePathFailed")
    /\ UNCHANGED <<inputs, toMoveShas, commits, todoPath, buffers, i, j, todoFile,
                   engine, engineArgs, logRequests>>

\* A toMove commit after the base commit was found: picked at once.
LoopToMoveAfterBase ==
    /\ pc = "loop" /\ i >= 1
    /\ IsToMove(Current)
    /\ foundBaseCommitInLog
    /\ todoFile' = AppendFile(todoFile, PickLine(Current))
    /\ Continue
    /\ UNCHANGED <<inputs, toMoveShas, commits, todoPath, buffers, j, thrown,
                   result, engine, engineArgs, logRequests, removeIssued,
                   removePending>>

\* A toMove commit before the base commit was found: kept in log order.
LoopToMoveBeforeBase ==
    /\ pc = "loop" /\ i >= 1
    /\ IsToMove(Current)
    /\ ~foundBaseCommitInLog
    /\ toReplayBeforeBaseCommit' = Push(toReplayBeforeBaseCommit, Current)
    /\ Continue
    /\ UNCHANGED <<inputs, toMoveShas, commits, todoPath, foundBaseCommitInLog,
                   toReplayAfterReorder, j, todoFile, thrown, result, engine,
                   engineArgs, logRequests, removeIssued, removePending>>

\* The base commit: it goes to the head of the kept commits, which are replayed.
LoopBaseCommit ==
    /\ pc = "loop" /\ i >= 1
    /\ ~IsToMove(Current)
    /\ IsBaseCommit(Current)
    /\ foundBaseCommitInLog' = TRUE
    /\ toReplayBeforeBaseCommit' = Unshift(toReplayBeforeBaseCommit, Current)
    /\ j' = 1
    /\ pc' = "replayBase"
    /\ UNCHANGED <<inputs, toMoveShas, commits, todoPath, toReplayAfterReorder, i,
                   todoFile, thrown, result, engine, engineArgs, logRequests,
                   removeIssued, removePending>>

\* for (j ...) appendFile(pick toReplayBeforeBaseCommit[j]), then continue
ReplayBase ==
    /\ pc = "replayBase"
    /\ IF j <= Len(toReplayBeforeBaseCommit)
         THEN /\ todoFile' = AppendFile(todoFile, PickLine(toReplayBeforeBaseCommit[j]))
              /\ j' = j + 1
              /\ UNCHANGED <<i, pc>>
         ELSE /\ Continue
              /\ UNCHANGED <<j, todoFile>>
    /\ UNCHANGED <<inputs, toMoveShas, commits, todoPath, buffers, thrown, result,
                   engine, engineArgs, logRequests, removeIssued, removePending>>

\* A commit that stays, after the base commit was found: held back.
LoopHold ==
    /\ pc = "loop" /\ i >= 1
    /\ ~IsToMove(Current)
    /\ ~IsBaseCommit(Current)
    /\ foundBaseCommitInLog
    /\ toReplayAfterReorder' = Push(toReplayAfterReorder, Current)
    /\ Continue
    /\ UNCHANGED <<inputs, toMoveShas, commits, todoPath, foundBaseCommitInLog,
                   toReplayBeforeBaseCommit, j, todoFile, thrown, result, engine,
                   engineArgs, logRequests, removeIssued, removePending>>

\* A commit that stays, before the base commit was found: an unchanged pick.
LoopPick ==
    /\ pc = "loop" /\ i >= 1
    /\ ~IsToMove(Current)
    /\ ~IsBaseCommit(Current)
    /\ ~foundBaseCommitInLog
    /\ todoFile' = AppendFile(todoFile, PickLine(Current))
    /\ Continue
    /\ UNCHANGED <<inputs, toMoveShas, commits, todoPath, buffers, j, thrown,
                   result, engine, engineArgs, logRequests, removeIssued,
                   removePending>>

\* The outer loop is over.
LoopExit ==
    /\ pc = "loop" /\ i = 0
    /\ j' = 1
    /\ pc' = "replayAfter"
    /\ UNCHANGED <<inputs, toMoveShas, commits, todoPath, buffers, i, todoFile,
                   thrown, result, engine, engineArgs, logRequests, removeIssued,
                   removePending>>

\* for (i ...) appendFile(pick toReplayAfterReorder[i])
ReplayAfterReorder ==
    /\ pc = "replayAfter"
    /\ IF j <= Len(toReplayAfterReorder)
         THEN /\ todoFile' = AppendFile(todoFile, PickLine(toReplayAfterReorder[j]))
              /\ j' = j + 1
              /\ UNCHANGED pc
         ELSE /\ pc' = "tail"
              /\ UNCHANGED <<j, todoFile>>
    /\ UNCHANGED <<inputs, toMoveShas, commits, todoPath, buffers, i, thrown,
                   result, engine, engineArgs, logRequests, removeIssued,
                   removePending>>

\* afterCommit === null: the kept commits go to the end of the history.
TailMoveToEnd ==
    /\ pc = "tail"
    /\ MoveToEndOfHistory
    /\ j' = 1
    /\ pc' = "replayBefore"
    /\ UNCHANGED <<inputs, toMoveShas, commits, todoPath, buffers, i, todoFile,
                   thrown, result, engine, engineArgs, logRequests, removeIssued,
                   removePending>>

\* The base commit was given and not met in the log.
TailBaseCommitNotInLog ==
    /\ pc = "tail"
    /\ ~MoveToEndOfHistory
    /\ BaseCommitNotInLog
    /\ CatchFinally("BaseCommitNotInLog")
    /\ UNCHANGED <<inputs, toMoveShas, commits, todoPath, buffers, i, j, todoFile,
                   engine, engineArgs, logRequests>>

\* The base commit was given and met: nothing is left to write.
TailDone ==
    /\ pc = "tail"
    /\ ~MoveToEndOfHistory
    /\ ~BaseCommitNotInLog
    /\ pc' = "readFile"
    /\ UNCHANGED <<inputs, toMoveShas, commits, todoPath, buffers, i, j, todoFile,
                   thrown, result, engine, engineArgs, logRequests, removeIssued,
                   removePending>>

\* for (i ...) appendFile(pick toReplayBeforeBaseCommit[i])
ReplayBeforeBaseCommit ==
    /\ pc = "replayBefore"
    /\ IF j <= Len(toReplayBeforeBaseCommit)
         THEN /\ todoFile' = AppendFile(todoFile, PickLine(toReplayBeforeBaseCommit[j]))
              /\ j' = j + 1
              /\ UNCHANGED pc
         ELSE /\ pc' = "readFile"
              /\ UNCHANGED <<j, todoFile>>
    /\ UNCHANGED <<inputs, toMoveShas, commits, todoPath, buffers, i, thrown,
                   result, engine, engineArgs, logRequests, removeIssued,
                   removePending>>

\* Variant: the engine is handed the log in the order of the pass.
RebaseInteractiveArgsOldestFirst ==
    [todoPath |-> todoPath,
     script |-> todoFile[1],
     baseBranch |-> lastRetainedCommitRef,
     commits |-> Reverse(commits)]

\* rebaseInteractive(repository, todoPath, lastRetainedCommitRef, ..., commits);
\* script is what the file at todoPath holds when the engine is called.
RebaseInteractiveArgs ==
    [todoPath |-> todoPath,
     script |-> todoFile[1],
     baseBranch |-> lastRetainedCommitRef,
     commits |-> commits]

\* The step the call is suspended at is an FSE.appendFile.
AtAppendFile ==
    \/ pc = "loop" /\ i >= 1 /\ IsToMove(Current) /\ foundBaseCommitInLog
    \/ pc = "loop" /\ i >= 1 /\ ~IsToMove(Current) /\ ~IsBaseCommit(Current)
          /\ ~foundBaseCommitInLog
    \/ pc = "replayBase" /\ j <= Len(toReplayBeforeBaseCommit)
    \/ pc = "replayAfter" /\ j <= Len(toReplayAfterReorder)
    \/ pc = "replayBefore" /\ j <= Len(toReplayBeforeBaseCommit)

\* FSE.appendFile rejects.
AppendFileRejects ==
    /\ AtAppendFile
    /\ CatchFinally("AppendFileFailed")
    /\ UNCHANGED <<inputs, toMoveShas, commits, todoPath, buffers, i, j, todoFile,
                   engine, engineArgs, logRequests>>

\* FSE.readFile resolves (there is a file), the script is logged and
\* rebaseInteractive is called.
ReadFile ==
    /\ pc = "readFile"
    /\ todoFile # None
    /\ engine' = "running"
    /\ engineArgs' = Some(RebaseInteractiveArgs)
    /\ pc' = "rebaseInteractive"
    /\ UNCHANGED <<inputs, toMoveShas, commits, todoPath, buffers, i, j, todoFile,
                   thrown, result, logRequests, removeIssued, removePending>>

\* FSE.readFile rejects (always so when there is no file).
ReadFileRejects ==
    /\ pc = "readFile"
    /\ CatchFinally("ReadFileFailed")
    /\ UNCHANGED <<inputs, toMoveShas, commits, todoPath, buffers, i, j, todoFile,
                   engine, engineArgs, logRequests>>

\* rebaseInteractive resolves; finally runs and the result is returned.
RebaseInteractive ==
    /\ pc = "rebaseInteractive"
    /\ engine' = "returned"
    /\ \E r \in RebaseResults : result' = r
    /\ Finally
    /\ pc' = "done"
    /\ UNCHANGED <<inputs, toMoveShas, commits, todoPath, buffers, i, j, todoFile,
                   thrown, engineArgs, logRequests>>

\* rebaseInteractive rejects.
RebaseInteractiveRejects ==
    /\ pc = "rebaseInteractive"
    /\ engine' = "threw"
    /\ CatchFinally("RebaseFailed")
    /\ UNCHANGED <<inputs, toMoveShas, commits, todoPath, buffers, i, j, todoFile,
                   engineArgs, logRequests>>

\* The removal issued by the finally block completes.
RemoveCompletes ==
    /\ removePending
    /\ removePending' = FALSE
    /\ todoFile' = None
    /\ UNCHANGED <<inputs, pc, toMoveShas, commits, todoPath, buffers, i, j,
                   thrown, result, engine, engineArgs, logRequests, removeIssued>>

Next ==
    \/ StartEmpty
    \/ Start
    \/ GetCommitsEmpty
    \/ GetCommits
    \/ GetCommitsRejects
    \/ GetTempFilePath
    \/ GetTempFilePathRejects
    \/ LoopToMoveAfterBase
    \/ LoopToMoveBeforeBase
    \/ LoopBaseCommit
    \/ ReplayBase
    \/ LoopHold
    \/ LoopPick
    \/ LoopExit
    \/ ReplayAfterReorder
    \/ TailMoveToEnd
    \/ TailBaseCommitNotInLog
    \/ TailDone
    \/ ReplayBeforeBaseCommit
    \/ AppendFileRejects
    \/ ReadFile
    \/ ReadFileRejects
    \/ RebaseInteractive
    \/ RebaseInteractiveRejects
    \/ RemoveCompletes

Spec == Init /\ [][Next]_vars

(***************************************************************************)
(* The computation of reorder() as a function of its arguments and of the  *)
(* log getCommits resolves to, when no collaborator rejects: the same      *)
(* pieces, applied from the oldest commit of the log to the newest.        *)
(***************************************************************************)

\* The locals of the pass: foundBaseCommitInLog, the two arrays, the file.
PassStart ==
    [found |-> FALSE, before |-> <<>>, after |-> <<>>, file |-> None]

\* for (...) appendFile(pick array[k]), from index k on
RECURSIVE AppendPicks(_, _, _)
AppendPicks(file, array, k) ==
    IF k > Len(array) THEN file
    ELSE AppendPicks(AppendFile(file, PickLine(array[k])), array, k + 1)

\* One iteration of the outer loop (lines 71-118).
PassIteration(st, commit, shaSet, base) ==
    IF commit.sha \in shaSet
      THEN IF st.found
             THEN [st EXCEPT !.file = AppendFile(@, PickLine(commit))]
             ELSE [st EXCEPT !.before = Push(@, commit)]
    ELSE IF base # None /\ commit.sha = base[1].sha
      THEN [st EXCEPT !.found = TRUE,
                      !.before = Unshift(@, commit),
                      !.file = AppendPicks(@, Unshift(st.before, commit), 1)]
    ELSE IF st.found
      THEN [st EXCEPT !.after = Push(@, commit)]
    ELSE [st EXCEPT !.file = AppendFile(@, PickLine(commit))]

\* The outer loop, from index k of the log (newest first) down to 1.
RECURSIVE Pass(_, _, _, _, _)
Pass(st, log, k, shaSet, base) ==
    IF k = 0 THEN st
    ELSE Pass(PassIteration(st, log[k], shaSet, base), log, k - 1, shaSet, base)

Failure(e) == [error |-> e, script |-> <<>>]

\* What reorder(list, base) computes on the log: the error it throws, or the
\* lines of the file rebaseInteractive is called with.
ReorderOutcome(log, list, base) ==
    IF NoCommitsProvided(list) THEN Failure("NoCommitsProvided")
    ELSE IF NoCommitsInLog(log) THEN Failure("NoCommitsInLog")
    ELSE LET st == Pass(PassStart, log, Len(log), ToMoveShaSet(list), base)
             replayed == AppendPicks(st.file, st.after, 1)
         IN  IF base = None
               THEN [error |-> "none",
                     script |-> AppendPicks(replayed, st.before, 1)[1]]
             ELSE IF ~st.found THEN Failure("BaseCommitNotInLog")
             ELSE [error |-> "none", script |-> replayed[1]]

(***************************************************************************)
(* Vocabulary of the properties                                            *)
(***************************************************************************)

\* The rewrite engine has been invoked: the computation succeeded.
Invoked == engine # "idle"

\* The log, oldest to newest, as shas.
LogShas == [k \in 1..Len(commits) |-> commits[Len(commits) + 1 - k].sha]

\* The pick lines of the script the engine was handed, as shas.
ScriptShas ==
    IF engineArgs = None THEN <<>>
    ELSE [k \in 1..Len(engineArgs[1].script) |-> engineArgs[1].script[k].sha]

\* The shas the caller asked to move.
MoveSet == {toMove[k].sha : k \in 1..Len(toMove)}

AnchorGiven == afterCommit # None
AnchorSha == afterCommit[1].sha

Range(s) == {s[k] : k \in 1..Len(s)}
Restrict(s, S) == SelectSeq(s, LAMBDA x : x \in S)
Count(s, x) == Cardinality({k \in 1..Len(s) : s[k] = x})
\* Position of x in s (x occurs once in s).
Pos(s, x) == CHOOSE k \in 1..Len(s) : s[k] = x
Older(x) == SubSeq(LogShas, 1, Pos(LogShas, x) - 1)
Newer(x) == SubSeq(LogShas, Pos(LogShas, x) + 1, Len(LogShas))

\* Errors raised by the awaited collaborators, not by the computation.
CollaboratorErrors == {"GetCommitsFailed", "GetTempFilePathFailed",
                       "AppendFileFailed", "ReadFileFailed", "RebaseFailed"}

(***************************************************************************)
(* Properties                                                              *)
(***************************************************************************)

\* C1 Conservation: when the rewrite engine is invoked, the script holds each
\* sha of the log exactly once and no other sha, so it is as long as the log.
C1_Conservation ==
    Invoked =>
        /\ Len(ScriptShas) = Len(commits)
        /\ \A x \in Range(LogShas) : Count(ScriptShas, x) = 1
        /\ Range(ScriptShas) \subseteq Range(LogShas)

C1_Witness ==
    /\ Invoked
    /\ Len(commits) = 5
    /\ AnchorGiven /\ AnchorSha = "B"
    /\ MoveSet = {"A", "D"}

C3_TailPlacement ==
    ~AnchorGiven =>
        /\ thrown # "BaseCommitNotInLog"
        /\ Invoked =>
             ScriptShas = Restrict(LogShas, Range(LogShas) \ MoveSet)
                          \o Restrict(LogShas, MoveSet)

C3_Witness ==
    /\ Invoked
    /\ ~AnchorGiven
    /\ LogShas = <<"A", "B", "C", "D", "E">>
    /\ MoveSet = {"B"}
    /\ ScriptShas = <<"A", "C", "D", "E", "B">>

\* C4 Non-mover order preservation: the script and the log, both restricted
\* to the shas that are neither moved nor the base commit's, are equal.
C4_NonMoverOrder ==
    Invoked =>
        LET stay == (Range(LogShas) \ MoveSet)
                    \ (IF AnchorGiven THEN {AnchorSha} ELSE {})
        IN  Restrict(ScriptShas, stay) = Restrict(LogShas, stay)

C4_Witness ==
    /\ Invoked
    /\ AnchorGiven
    /\ Len(toReplayAfterReorder) >= 2
    /\ \E k \in 1..Len(commits) :
         /\ commits[k].sha \in MoveSet
         /\ k < Pos(Reverse(LogShas), AnchorSha)

\* C5 Mover order preservation: the script and the log, both restricted to
\* the moved shas, are equal, in whatever order and with whatever
\* repetitions toMove lists them.
C5_MoverOrder ==
    Invoked => Restrict(ScriptShas, MoveSet) = Restrict(LogShas, MoveSet)

C5_Witness ==
    /\ Invoked
    /\ Len(toMove) = 2
    /\ toMove[1].sha = "B" /\ toMove[2].sha = "A"
    /\ AnchorGiven /\ AnchorSha = "C"

\* C6 Anchor-missing failure: with a base commit whose sha is not in the
\* (non-empty) log, the engine is never invoked, the call resolves to Error,
\* and the missing base commit is reported only once the loop is over.
C6_AnchorMissing ==
    (AnchorGiven /\ Len(commits) > 0 /\ AnchorSha \notin Range(LogShas)) =>
        /\ ~Invoked
        /\ engineArgs = None
        /\ pc = "done" =>
             /\ result = RebaseResultError
             /\ thrown \in {"BaseCommitNotInLog"} \cup CollaboratorErrors
        /\ thrown = "BaseCommitNotInLog" => i = 0

C6_Witness ==
    /\ thrown = "BaseCommitNotInLog"
    /\ AnchorSha = AbsentSha
    /\ LogShas = <<"A", "B", "C">>
    /\ MoveSet = {"A"}

\* C7 No other failure mode: with a non-empty log, a non-empty toMove and a
\* base commit that is null or in the log, the computation raises none of its
\* own errors, and a finished call that met no collaborator error has
\* invoked the engine.
C7_NoOtherFailure ==
    (/\ Len(commits) > 0
     /\ Len(toMove) > 0
     /\ AnchorGiven => AnchorSha \in Range(LogShas)) =>
        /\ thrown \notin {"NoCommitsProvided", "NoCommitsInLog", "BaseCommitNotInLog"}
        /\ (pc = "done" /\ thrown \notin CollaboratorErrors) => Invoked

\* C8 Precondition failures: an empty toMove fails before the log is asked
\* for; an empty log fails before the pass starts; in both cases no path is
\* acquired, no line is written and the engine is not invoked; an empty
\* toMove is what is reported whatever the log.
C8_Preconditions ==
    /\ thrown = "NoCommitsProvided" => logRequests = <<>>
    /\ thrown \in {"NoCommitsProvided", "NoCommitsInLog"} =>
         /\ todoPath = Undefined
         /\ todoFile = None
         /\ i = 0
         /\ toReplayBeforeBaseCommit = <<>> /\ toReplayAfterReorder = <<>>
         /\ ~Invoked
         /\ removeIssued = 0
         /\ result = RebaseResultError
    /\ Len(toMove) = 0 =>
         /\ pc \in {"start", "done"}
         /\ pc = "done" => thrown = "NoCommitsProvided"
    /\ (Len(toMove) > 0 /\ pc \notin {"start", "getCommits"} /\ Len(commits) = 0) =>
         /\ pc = "done"
         /\ thrown \in {"NoCommitsInLog", "GetCommitsFailed"}

C8_Witness ==
    /\ thrown = "NoCommitsInLog"
    /\ Len(toMove) = 2
    /\ Len(logRequests) = 1

\* C9 Log-order block: the block made of the base commit and the moved
\* commits is in log order: a moved commit older than the base commit is
\* before it in the script, a moved commit newer than it is after it.
C9_LogOrderBlock ==
    (Invoked /\ AnchorGiven /\ AnchorSha \in Range(LogShas)) =>
        \A x \in MoveSet \cap Range(LogShas) :
            (Pos(LogShas, x) < Pos(LogShas, AnchorSha))
                <=> (Pos(ScriptShas, x) < Pos(ScriptShas, AnchorSha))

\* C10 Script storage release: once the call is over with the path acquired,
\* the removal of the path has been issued exactly once; it is never issued
\* without the path, nor while the call or the engine is still running.
C10_StorageRelease ==
    /\ removeIssued <= 1
    /\ (pc = "done" /\ todoPath # Undefined) => removeIssued = 1
    /\ todoPath = Undefined => removeIssued = 0
    /\ removeIssued >= 1 => (pc = "done" /\ engine # "running")

C10_Witness ==
    /\ engine = "threw"
    /\ todoPath = TempFilePath
    /\ removeIssued = 1

(***************************************************************************)
(* Vocabulary of the properties about the pass                             *)
(***************************************************************************)

\* Errors raised by the computation itself.
OwnErrors == {"NoCommitsProvided", "NoCommitsInLog", "BaseCommitNotInLog"}

\* The pick lines written so far to the file at todoPath, as shas.
WrittenShas ==
    IF todoFile = None THEN <<>>
    ELSE [k \in 1..Len(todoFile[1]) |-> todoFile[1][k].sha]

ShasOf(array) == [k \in 1..Len(array) |-> array[k].sha]

\* The outer loop is in progress.
InPass == pc \in {"loop", "replayBase"}

\* The shas of the commits the outer loop has visited, oldest first.
VisitedShas ==
    SubSeq(LogShas, 1, IF pc = "replayBase" THEN Len(commits) + 1 - i
                                            ELSE Len(commits) - i)

\* The commits of toReplayBeforeBaseCommit that are still to be written.
PendingBeforeShas ==
    IF ~foundBaseCommitInLog THEN ShasOf(toReplayBeforeBaseCommit)
    ELSE IF pc = "replayBase"
         THEN SubSeq(ShasOf(toReplayBeforeBaseCommit), j, Len(toReplayBeforeBaseCommit))
         ELSE <<>>

\* C11 Partial output is never surfaced: the engine is invoked at most once,
\* and only when the pass and the replays are over without an error, with a
\* file that holds one line per commit of the log and is still there while the
\* engine runs; after an error of the computation the engine was not invoked
\* and the call resolves to Error, whatever was written to the file.
C11_NoPartialOutput ==
    /\ [](/\ Invoked =>
               /\ thrown \in {"none", "RebaseFailed"}
               /\ i = 0
               /\ Len(commits) > 0
               /\ Len(engineArgs[1].script) = Len(commits)
          /\ engine = "running" =>
               /\ pc = "rebaseInteractive"
               /\ todoFile = Some(engineArgs[1].script)
          /\ thrown \in OwnErrors =>
               /\ ~Invoked
               /\ engineArgs = None
               /\ pc = "done"
               /\ result = RebaseResultError)
    /\ [][/\ engine' # engine =>
               \/ engine = "idle" /\ engine' = "running" /\ pc = "readFile"
               \/ engine = "running" /\ engine' \in {"returned", "threw"}
          /\ engineArgs' # engineArgs => engine = "idle"]_vars

C11_Witness ==
    /\ thrown = "BaseCommitNotInLog"
    /\ todoFile # None
    /\ Len(todoFile[1]) >= 2
    /\ result = RebaseResultError
    /\ ~Invoked

\* C12 Phase transition: the pass starts with foundBaseCommitInLog false; it
\* becomes true only in the pass, with a base commit given, at the commit
\* that has the base commit's sha; once true it is never false again.
C12_PhaseTransition ==
    /\ [](pc \in {"start", "getCommits", "getTempFilePath"} => ~foundBaseCommitInLog)
    /\ [](foundBaseCommitInLog =>
              (AnchorGiven /\ Count(LogShas, AnchorSha) = 1))
    /\ [][foundBaseCommitInLog' # foundBaseCommitInLog =>
              /\ ~foundBaseCommitInLog
              /\ foundBaseCommitInLog'
              /\ pc = "loop" /\ i >= 1
              /\ AnchorGiven
              /\ commits[i].sha = AnchorSha]_vars

C12_Witness ==
    /\ foundBaseCommitInLog
    /\ pc = "loop"
    /\ i >= 2

\* C13 Deferred emission: during the pass, while the base commit is not found
\* no line of a toMove commit has been written, and once it is found no line
\* of a commit newer than the base commit that stays has been written.
C13_DeferredEmission ==
    InPass =>
        /\ ~foundBaseCommitInLog => Range(WrittenShas) \cap MoveSet = {}
        /\ foundBaseCommitInLog =>
             Range(WrittenShas) \cap (Range(Newer(AnchorSha)) \ MoveSet) = {}

C13_Witness ==
    /\ pc = "loop"
    /\ foundBaseCommitInLog
    /\ Len(toReplayAfterReorder) >= 1
    /\ Len(toReplayBeforeBaseCommit) >= 2
    /\ i >= 1

\* C14 as claimed: during the pass every visited commit is in exactly one of
\* the file, toReplayBeforeBaseCommit and toReplayAfterReorder,
\* toReplayBeforeBaseCommit holds toMove commits only and is empty once the
\* base commit's replay is over.
C14_BufferPartitionAsClaimed ==
    InPass =>
        /\ \A x \in Range(VisitedShas) :
             Count(WrittenShas, x) + Count(ShasOf(toReplayBeforeBaseCommit), x)
                + Count(ShasOf(toReplayAfterReorder), x) = 1
        /\ Range(ShasOf(toReplayBeforeBaseCommit)) \subseteq MoveSet
        /\ (foundBaseCommitInLog /\ pc = "loop") => toReplayBeforeBaseCommit = <<>>

\* C14 Buffer partition, amended: during the pass every visited commit is
\* either written to the file once or held once, in toReplayAfterReorder or in
\* the part of toReplayBeforeBaseCommit that is still to be written, and no
\* other commit is.  Before the base commit is found toReplayBeforeBaseCommit
\* holds toMove commits only; from then on it is the base commit followed by
\* toMove commits, it is not emptied and it does not change any more.
C14_BufferPartition ==
    /\ [](InPass =>
            /\ \A x \in Range(LogShas) :
                 Count(WrittenShas, x) + Count(PendingBeforeShas, x)
                    + Count(ShasOf(toReplayAfterReorder), x)
                 = (IF x \in Range(VisitedShas) THEN 1 ELSE 0)
            /\ ~foundBaseCommitInLog =>
                 Range(ShasOf(toReplayBeforeBaseCommit)) \subseteq MoveSet
            /\ foundBaseCommitInLog =>
                 /\ Len(toReplayBeforeBaseCommit) >= 1
                 /\ toReplayBeforeBaseCommit[1].sha = AnchorSha
                 /\ \A k \in 2..Len(toReplayBeforeBaseCommit) :
                      toReplayBeforeBaseCommit[k].sha \in MoveSet)
    /\ [][foundBaseCommitInLog =>
            toReplayBeforeBaseCommit' = toReplayBeforeBaseCommit]_vars

C14_Witness ==
    /\ pc = "loop"
    /\ i >= 1
    /\ foundBaseCommitInLog
    /\ Len(toReplayBeforeBaseCommit) = 3
    /\ WrittenShas # <<>>

\* C16 Frame: once getCommits has resolved, commits is what the provider
\* returned and never changes; the engine is handed that log and the
\* lastRetainedCommitRef the log was asked for.
C16_Frame ==
    /\ [](Invoked =>
            /\ engineArgs[1].commits = commits
            /\ commits = GetCommitsResult(Len(commits))
            /\ engineArgs[1].baseBranch = lastRetainedCommitRef
            /\ logRequests = <<RevRangeArg(engineArgs[1].baseBranch)>>)
    /\ [][pc \notin {"start", "getCommits"} => commits' = commits]_vars
    /\ [][lastRetainedCommitRef' = lastRetainedCommitRef]_vars

C16_Witness ==
    /\ Invoked
    /\ lastRetainedCommitRef = "base"
    /\ Len(commits) >= 3
    /\ foundBaseCommitInLog
    /\ Len(toReplayBeforeBaseCommit) >= 2
    /\ Len(toReplayAfterReorder) >= 1

\* C17 Release completes before return: when the call delivers its result
\* with the path acquired, the removal is over and the file is gone.
C17_ReleaseBeforeReturn ==
    (pc = "done" /\ todoPath # Undefined) =>
        /\ ~removePending
        /\ todoFile = None

(***************************************************************************)
(* Vocabulary of the properties that compare two calls                     *)
(***************************************************************************)

\* The computation of the call is settled: the engine is running on the
\* script (which no later step changes), or the computation threw.
Settled == engine = "running" \/ thrown \in OwnErrors

\* What the call computed.
CallOutcome ==
    IF Invoked THEN [error |-> "none", script |-> engineArgs[1].script]
    ELSE Failure(thrown)

\* The arguments of the calls that name the same shas as this call: toMove
\* in any order, with any repetition, afterCommit with the same sha (or null
\* as it is), both with the summaries of the log or with others.
SameShaCalls ==
    {[list |-> [k \in 1..Len(shas) |->
                   CommitOneLine(shas[k], CallerSummary(shas[k], stale))],
      base |-> IF afterCommit = None THEN None
               ELSE Some(CommitOneLine(AnchorSha, CallerSummary(AnchorSha, stale)))] :
        shas \in {q \in SeqsUpTo(MoveSet, MaxMove) : Range(q) = MoveSet},
        stale \in BOOLEAN}

\* The lines of a script, read as the log (newest first) of a next call.
ScriptAsLog(script) ==
    Reverse([k \in 1..Len(script) |->
                CommitOneLine(script[k].sha, script[k].summary)])

\* C15 Determinism and caller-order independence: what a call computes on a
\* log is what any call computes on that log with a toMove list of the same
\* shas and an afterCommit of the same sha: the same error, or the same
\* script; and each line of the script has the summary of the log's commit.
C15_Determinism ==
    Settled =>
        /\ \A call \in SameShaCalls :
             ReorderOutcome(commits, call.list, call.base) = CallOutcome
        /\ \A k \in 1..Len(CallOutcome.script) :
             \E m \in 1..Len(commits) :
                /\ commits[m].sha = CallOutcome.script[k].sha
                /\ commits[m].summary = CallOutcome.script[k].summary

C15_Witness ==
    /\ Settled
    /\ Invoked
    /\ Len(toMove) = 2
    /\ toMove[1].sha = "D" /\ toMove[2].sha = "A"
    /\ toMove[1].summary # LogSummary("D")
    /\ AnchorGiven /\ AnchorSha = "B"
    /\ Len(commits) = 5
    /\ Cardinality(SameShaCalls) >= 4

\* C18 Idempotence: a call on the script of a successful call, read as the
\* log, with the same toMove and afterCommit, succeeds with the same script.
C18_Idempotence ==
    Invoked =>
        ReorderOutcome(ScriptAsLog(engineArgs[1].script), toMove, afterCommit)
            = [error |-> "none", script |-> engineArgs[1].script]

C18_Witness ==
    /\ Invoked
    /\ AnchorGiven /\ AnchorSha = "B"
    /\ MoveSet = {"A", "E"}
    /\ ScriptShas = <<"B", "A", "E", "C", "D">>

====
